---- MODULE Spec2Model ----
(***************************************************************************)
(* Model of the CBOR codec (RFC 7049) and of the JSON-pointer engine       *)
(* (RFC 6901) of src/cbor/codec.go.                                        *)
(*                                                                         *)
(* A machine word of w bytes is a sequence of w bytes, least significant   *)
(* byte first (position k holds the coefficient of 256^(k-1)); signed      *)
(* words are two's complement.  A buffer is a sequence of bytes in buffer  *)
(* order.  encoding/binary.BigEndian moves between the two.                *)
(***************************************************************************)
EXTENDS Integers, Sequences, FiniteSets, TLC

\* ------------------------------------------------------------ bounds

MaxLen == 2

MaxTrail == 1

\* ------------------------------------------------------- machine words

Zeros(n) == [i \in 1..n |-> 0]

\* the Go literal n as a w-byte two's complement word (|n| < 2^31)
IntLit(w, n) ==
  [i \in 1..w |-> IF i > 4 THEN (IF n < 0 THEN 255 ELSE 0)
                  ELSE (n \div (256 ^ (i - 1))) % 256]

\* x + 1 in the width of x (wraps)
Inc(x) ==
  [i \in 1..Len(x) |-> IF \A j \in 1..(i - 1) : x[j] = 255
                       THEN (x[i] + 1) % 256 ELSE x[i]]

\* x - 1 in the width of x (wraps)
Dec(x) ==
  [i \in 1..Len(x) |-> IF \A j \in 1..(i - 1) : x[j] = 0
                       THEN (x[i] + 255) % 256 ELSE x[i]]

Not(x) == [i \in 1..Len(x) |-> 255 - x[i]]

\* -x in the width of x (wraps)
Neg(x) == Inc(Not(x))

IsNeg(x) == x[Len(x)] >= 128

\* unsigned and signed comparison of two words of one width
ULt(a, b) ==
  \E i \in 1..Len(a) : a[i] < b[i] /\ \A j \in (i + 1)..Len(a) : a[j] = b[j]

SLt(a, b) == IF IsNeg(a) # IsNeg(b) THEN IsNeg(a) ELSE ULt(a, b)

\* Go conversions between integer types: truncate, zero- and sign-extend
Trunc(x, w) == SubSeq(x, 1, w)

ZExt(x, w) == [i \in 1..w |-> IF i <= Len(x) THEN x[i] ELSE 0]

SExt(x, w) ==
  [i \in 1..w |-> IF i <= Len(x) THEN x[i] ELSE IF IsNeg(x) THEN 255 ELSE 0]

\* literals outside the 32-bit range
W4294967296 == <<0, 0, 0, 0, 1, 0, 0, 0>>

WNeg4294967296 == <<0, 0, 0, 0, 255, 255, 255, 255>>

W9223372036854775807 == <<255, 255, 255, 255, 255, 255, 255, 127>>

\* int(x) for a length or count: lengths of 2^24 and more all exceed every
\* buffer of the model, and are cut to 2^24
Huge == 16777216

ToInt(x) ==
  IF \E i \in 4..Len(x) : x[i] # 0 THEN Huge
  ELSE ZExt(x, 3)[1] + 256 * ZExt(x, 3)[2] + 65536 * ZExt(x, 3)[3]

\* ------------------------------------------------------- header bytes

type0 == 0
type1 == 32
type2 == 64
type3 == 96
type4 == 128
type5 == 160
type6 == 192
type7 == 224

info24 == 24
info25 == 25
info26 == 26
info27 == 27
indefiniteLength == 31

simpleTypeFalse == 20
simpleTypeTrue == 21
simpleTypeNil == 22
simpleUndefined == 23
simpleTypeByte == 24
flt16 == 25
flt32 == 26
flt64 == 27
itemBreak == 31

MaxSmallInt == 23

tagJsonString == 33

\* b & 0xe0, b & 0x1f
major(b) == (b \div 32) * 32

info(b) == b % 32

hdr(mjr, inf) == major(mjr) + info(inf)

brkstp == hdr(type7, itemBreak)

\* encoding/binary.BigEndian: most significant byte first in the buffer
\* the payload written least significant byte first
PutUintLE(x) == x

PutUintBE(x) == [i \in 1..Len(x) |-> x[Len(x) + 1 - i]]

\* binary.BigEndian.UintN(buf[at-1:]) for N = 8 * w
UintBE(buf, at, w) == [i \in 1..w |-> buf[at + w - i]]

\* ------------------------------------------------------------- values

\* A Go value (interface{}): k is its dynamic type, w the bit width of an
\* integer type, b a word (integers, float bits) or the bytes of a []byte or
\* string, items the elements of a []interface{}, pairs those of a
\* [][2]interface{}.
Val(k, w, b, items, pairs) ==
  [k |-> k, w |-> w, b |-> b, items |-> items, pairs |-> pairs]

Nil == Val("nil", 0, <<>>, <<>>, <<>>)

Bool(t) == Val("bool", 0, IF t THEN <<1>> ELSE <<0>>, <<>>, <<>>)

IntV(w, x) == Val("int", w, x, <<>>, <<>>)

UintV(w, x) == Val("uint", w, x, <<>>, <<>>)

Float(w, bits) == Val("float", w, bits, <<>>, <<>>)

Bytes(b) == Val("bytes", 0, b, <<>>, <<>>)

String(b) == Val("string", 0, b, <<>>, <<>>)

Array(items) == Val("array", 0, <<>>, items, <<>>)

Map(pairs) == Val("map", 0, <<>>, <<>>, pairs)

Undefined == Val("Undefined", 0, <<simpleUndefined>>, <<>>, <<>>)

Indefinite(b) == Val("Indefinite", 0, <<b>>, <<>>, <<>>)

BreakStop(b) == Val("BreakStop", 0, <<b>>, <<>>, <<>>)

\* ------------------------------------------------------------ encoders
\* Each encoder is the bytes it writes at buf[0..n); the count n it returns
\* is their number.

encodeNull == <<hdr(type7, simpleTypeNil)>>

encodeTrue == <<hdr(type7, simpleTypeTrue)>>

encodeFalse == <<hdr(type7, simpleTypeFalse)>>

encodeUint8(item) ==
  IF ~ULt(IntLit(1, MaxSmallInt), item)
  THEN <<hdr(type0, item[1])>>
  ELSE <<hdr(type0, info24), item[1]>>

encodeInt8(item) ==
  IF SLt(IntLit(1, MaxSmallInt), item)
  THEN <<hdr(type0, info24), item[1]>>
  ELSE IF SLt(item, IntLit(1, -MaxSmallInt))
  THEN <<hdr(type1, info24), Neg(Inc(item))[1]>>
  ELSE IF SLt(item, IntLit(1, 0))
  THEN <<hdr(type1, Neg(Inc(item))[1])>>
  ELSE <<hdr(type0, item[1])>>

encodeUint16(item) ==
  IF ULt(item, IntLit(2, 256))
  THEN encodeUint8(Trunc(item, 1))
  ELSE <<hdr(type0, info25)>> \o PutUintBE(item)

encodeInt16(item) ==
  IF SLt(IntLit(2, 127), item)
  THEN IF SLt(item, IntLit(2, 256))
       THEN <<hdr(type0, info24), Trunc(item, 1)[1]>>
       ELSE <<hdr(type0, info25)>> \o PutUintBE(item)
  ELSE IF SLt(item, IntLit(2, -128))
  THEN IF SLt(IntLit(2, -256), item)
       THEN <<hdr(type1, info24), Trunc(Neg(Inc(item)), 1)[1]>>
       ELSE <<hdr(type1, info25)>> \o PutUintBE(Neg(Inc(item)))
  ELSE encodeInt8(Trunc(item, 1))

encodeUint32(item) ==
  IF ULt(item, IntLit(4, 65536))
  THEN encodeUint16(Trunc(item, 2))
  ELSE <<hdr(type0, info26)>> \o PutUintBE(item)

encodeInt32(item) ==
  IF SLt(IntLit(4, 32767), item)
  THEN IF SLt(item, IntLit(4, 65536))
       THEN <<hdr(type0, info25)>> \o PutUintBE(Trunc(item, 2))
       ELSE <<hdr(type0, info26)>> \o PutUintBE(item)
  ELSE IF SLt(item, IntLit(4, -32768))
  THEN IF SLt(IntLit(4, -65536), item)
       THEN <<hdr(type1, info25)>> \o PutUintBE(Trunc(Neg(Inc(item)), 2))
       ELSE <<hdr(type1, info26)>> \o PutUintBE(Neg(Inc(item)))
  ELSE encodeInt16(Trunc(item, 2))

encodeUint64(item) ==
  IF ULt(item, W4294967296)
  THEN encodeUint32(Trunc(item, 4))
  ELSE <<hdr(type0, info27)>> \o PutUintBE(item)

encodeInt64(item) ==
  IF SLt(IntLit(8, 2147483647), item)
  THEN IF SLt(item, W4294967296)
       THEN <<hdr(type0, info26)>> \o PutUintBE(Trunc(item, 4))
       ELSE <<hdr(type0, info27)>> \o PutUintBE(item)
  ELSE IF SLt(item, IntLit(8, -2147483647 - 1))
  THEN IF SLt(WNeg4294967296, item)
       THEN <<hdr(type1, info26)>> \o PutUintBE(Trunc(Neg(Inc(item)), 4))
       ELSE <<hdr(type1, info27)>> \o PutUintBE(Neg(Inc(item)))
  ELSE encodeInt32(Trunc(item, 4))

encodeFloat32(bits) == <<hdr(type7, flt32)>> \o PutUintBE(bits)

encodeFloat64(bits) == <<hdr(type7, flt64)>> \o PutUintBE(bits)

\* buf[0] = (buf[0] & 0x1f) | typ
Retag(buf, typ) == <<info(buf[1]) + typ>> \o Tail(buf)

encodeBytes(item) == Retag(encodeUint64(IntLit(8, Len(item))), type2) \o item

encodeBytesStart == <<hdr(type2, indefiniteLength)>>

encodeText(item) == Retag(encodeBytes(item), type3)

encodeTextStart == <<hdr(type3, indefiniteLength)>>

encodeArrayStart == <<hdr(type4, indefiniteLength)>>

encodeMapStart == <<hdr(type5, indefiniteLength)>>

encodeBreakStop == <<hdr(type7, itemBreak)>>

encodeUndefined == <<hdr(type7, simpleUndefined)>>

RECURSIVE encode(_)

RECURSIVE encodeArrayItems(_)

RECURSIVE encodeMapItems(_)

encodeArrayItems(items) ==
  IF items = <<>> THEN <<>>
  ELSE encode(Head(items)) \o encodeArrayItems(Tail(items))

encodeMapItems(items) ==
  IF items = <<>> THEN <<>>
  ELSE encode(Head(items)[1]) \o encode(Head(items)[2])
       \o encodeMapItems(Tail(items))

encodeArray(items) ==
  Retag(encodeUint64(IntLit(8, Len(items))), type4) \o encodeArrayItems(items)

encodeMap(items) ==
  Retag(encodeUint64(IntLit(8, Len(items))), type5) \o encodeMapItems(items)

encode(item) ==
  CASE item.k = "nil" -> encodeNull
    [] item.k = "bool" -> IF item.b = <<1>> THEN encodeTrue ELSE encodeFalse
    [] item.k = "int" /\ item.w = 8 -> encodeInt8(item.b)
    [] item.k = "uint" /\ item.w = 8 -> encodeUint8(item.b)
    [] item.k = "int" /\ item.w = 16 -> encodeInt16(item.b)
    [] item.k = "uint" /\ item.w = 16 -> encodeUint16(item.b)
    [] item.k = "int" /\ item.w = 32 -> encodeInt32(item.b)
    [] item.k = "uint" /\ item.w = 32 -> encodeUint32(item.b)
    [] item.k = "int" /\ item.w = 64 -> encodeInt64(item.b)
    [] item.k = "uint" /\ item.w = 64 -> encodeUint64(item.b)
    [] item.k = "float" /\ item.w = 32 -> encodeFloat32(item.b)
    [] item.k = "float" /\ item.w = 64 -> encodeFloat64(item.b)
    [] item.k = "bytes" -> encodeBytes(item.b)
    [] item.k = "string" -> encodeText(item.b)
    [] item.k = "array" -> encodeArray(item.items)
    [] item.k = "map" -> encodeMap(item.pairs)
    [] item.k = "Undefined" -> encodeUndefined

\* ------------------------------------------------------------ decoders
\* A decoder's result: the value and the byte count it returns, or the error
\* it panics with ("RuntimePanic" is a Go runtime panic: an index or a slice
\* bound out of range, a call of a nil function).  A buffer's capacity is its
\* length.

Ok(v, n) == [err |-> "", val |-> v, n |-> n]

Panic(e) == [err |-> e, val |-> Nil, n |-> 0]

\* buf[at:] (at counted from 0)
From(buf, at) == SubSeq(buf, at + 1, Len(buf))

\* the dispatch table as init() fills it: one entry per assignment
Entry(h, fn, arg) == [h |-> h, fn |-> fn, arg |-> arg]

makePanic(h, msg) == Entry(h, "makePanic", msg)

IntEntries(typ, small, i24, i25, i26, i27) ==
  {Entry(hdr(typ, i), small, "") : i \in 0..(info24 - 1)}
  \cup {Entry(hdr(typ, info24), i24, ""), Entry(hdr(typ, info25), i25, ""),
        Entry(hdr(typ, info26), i26, ""), Entry(hdr(typ, info27), i27, "")}

ReservedEntries(typ, msg31) ==
  {makePanic(hdr(typ, 28), "DecodeInfoReserved"),
   makePanic(hdr(typ, 29), "DecodeInfoReserved"),
   makePanic(hdr(typ, 30), "DecodeInfoReserved")}
  \cup (IF msg31 = "" THEN {}
        ELSE {makePanic(hdr(typ, indefiniteLength), msg31)})

ContainerEntries(typ, fn, fnIndefinite) ==
  {Entry(hdr(typ, i), fn, "") : i \in 0..27}
  \cup ReservedEntries(typ, "")
  \cup {Entry(hdr(typ, indefiniteLength), fnIndefinite, "")}

\* the type-7 slots with info 28..30 given the error of the other major types
Type7EntriesReserved ==
  {Entry(hdr(type7, i), "simple", "") : i \in 0..19}
  \cup {Entry(hdr(type7, simpleTypeFalse), "decodeFalse", ""),
        Entry(hdr(type7, simpleTypeTrue), "decodeTrue", ""),
        Entry(hdr(type7, simpleTypeNil), "decodeNull", ""),
        Entry(hdr(type7, simpleUndefined), "decodeUndefined", ""),
        Entry(hdr(type7, simpleTypeByte), "decodeSimpleTypeByte", ""),
        Entry(hdr(type7, flt16), "decodeFloat16", ""),
        Entry(hdr(type7, flt32), "decodeFloat32", ""),
        Entry(hdr(type7, flt64), "decodeFloat64", ""),
        Entry(hdr(type7, itemBreak), "decodeBreakCode", "")}
  \cup ReservedEntries(type7, "")

Type7Entries ==
  {Entry(hdr(type7, i), "simple", "") : i \in 0..19}
  \cup {Entry(hdr(type7, simpleTypeFalse), "decodeFalse", ""),
        Entry(hdr(type7, simpleTypeTrue), "decodeTrue", ""),
        Entry(hdr(type7, simpleTypeNil), "decodeNull", ""),
        Entry(hdr(type7, simpleUndefined), "decodeUndefined", ""),
        Entry(hdr(type7, simpleTypeByte), "decodeSimpleTypeByte", ""),
        Entry(hdr(type7, flt16), "decodeFloat16", ""),
        Entry(hdr(type7, flt32), "decodeFloat32", ""),
        Entry(hdr(type7, flt64), "decodeFloat64", ""),
        makePanic(hdr(type7, 28), "DecodeSimpleType"),
        makePanic(hdr(type7, 29), "DecodeSimpleType"),
        makePanic(hdr(type7, 30), "DecodeSimpleType"),
        Entry(hdr(type7, itemBreak), "decodeBreakCode", "")}

DecoderEntries ==
  IntEntries(type0, "decodeType0SmallInt", "decodeType0Info24",
             "decodeType0Info25", "decodeType0Info26", "decodeType0Info27")
  \cup ReservedEntries(type0, "DecodeIndefinite")
  \cup IntEntries(type1, "decodeType1SmallInt", "decodeType1Info24",
                  "decodeType1Info25", "decodeType1Info26", "decodeType1Info27")
  \cup ReservedEntries(type1, "DecodeIndefinite")
  \cup ContainerEntries(type2, "decodeType2", "decodeType2Indefinite")
  \cup ContainerEntries(type3, "decodeType3", "decodeType3Indefinite")
  \cup ContainerEntries(type4, "decodeType4", "decodeType4Indefinite")
  \cup ContainerEntries(type5, "decodeType5", "decodeType5Indefinite")
  \cup IntEntries(type6, "decodeTag", "decodeTag", "decodeTag", "decodeTag",
                  "decodeTag")
  \cup ReservedEntries(type6, "DecodeIndefinite")
  \cup Type7Entries

\* the map cborDecoders: a header byte without an entry has no handler
cborDecoders ==
  [h \in {e.h : e \in DecoderEntries} |->
     CHOOSE e \in DecoderEntries : e.h = h]

decodeType0SmallInt(buf) == Ok(UintV(64, ZExt(<<info(buf[1])>>, 8)), 1)

decodeType1SmallInt(buf) ==
  Ok(IntV(64, Neg(ZExt(Inc(<<info(buf[1])>>), 8))), 1)

decodeType0Info(buf, w) ==
  IF Len(buf) < 1 + w THEN Panic("RuntimePanic")
  ELSE Ok(UintV(64, ZExt(UintBE(buf, 2, w), 8)), 1 + w)

\* the negative integer without the offset of one: -payload
decodeType1InfoNoBias(buf, w) ==
  IF Len(buf) < 1 + w THEN Panic("RuntimePanic")
  ELSE Ok(IntV(64, Neg(ZExt(UintBE(buf, 2, w), 8))), 1 + w)

\* -int64(payload + 1), the sum taken in the payload's own width
decodeType1Info(buf, w) ==
  IF Len(buf) < 1 + w THEN Panic("RuntimePanic")
  ELSE Ok(IntV(64, Neg(ZExt(Inc(UintBE(buf, 2, w)), 8))), 1 + w)

\* the 8-byte negative integer without the test of its range
decodeType1Info27Unchecked(buf) ==
  IF Len(buf) < 9 THEN Panic("RuntimePanic")
  ELSE Ok(IntV(64, Dec(Neg(UintBE(buf, 2, 8)))), 9)

decodeType1Info27(buf) ==
  IF Len(buf) < 9 THEN Panic("RuntimePanic")
  ELSE IF ULt(W9223372036854775807, UintBE(buf, 2, 8))
  THEN Panic("DecodeExceedInt64")
  ELSE Ok(IntV(64, Dec(Neg(UintBE(buf, 2, 8)))), 9)

decodeFloat(buf, w) ==
  IF Len(buf) < 1 + w THEN Panic("RuntimePanic")
  ELSE Ok(Float(8 * w, UintBE(buf, 2, w)), 1 + w)

decodeSimpleTypeByte(buf) ==
  IF Len(buf) < 2 THEN Panic("RuntimePanic")
  ELSE Ok(UintV(8, <<buf[2]>>), 2)

\* the width in bytes of the payload that follows a header with info y
PayloadWidth(y) ==
  IF y < info24 THEN 0
  ELSE IF y = info24 THEN 1
  ELSE IF y = info25 THEN 2
  ELSE IF y = info26 THEN 4
  ELSE 8

\* (length, bytes read); ok is FALSE where the read panics
decodeLength(buf) ==
  LET y == info(buf[1])
      w == PayloadWidth(y)
  IN  IF Len(buf) < 1 + w THEN [ok |-> FALSE, ln |-> 0, n |-> 0]
      ELSE IF w = 0 THEN [ok |-> TRUE, ln |-> y, n |-> 1]
      ELSE [ok |-> TRUE, ln |-> ToInt(UintBE(buf, 2, w)), n |-> 1 + w]

decodeType2(buf) ==
  LET d == decodeLength(buf)
  IN  IF ~d.ok \/ d.n + d.ln > Len(buf) THEN Panic("RuntimePanic")
      ELSE Ok(Bytes(SubSeq(buf, d.n + 1, d.n + d.ln)), d.n + d.ln)

\* the text string with the count of its payload alone
decodeType3PayloadCount(buf) ==
  LET d == decodeLength(buf)
  IN  IF ~d.ok \/ d.n + d.ln > Len(buf) THEN Panic("RuntimePanic")
      ELSE Ok(String(SubSeq(buf, d.n + 1, d.n + d.ln)), d.ln)

decodeType3(buf) ==
  LET d == decodeLength(buf)
  IN  IF ~d.ok \/ d.n + d.ln > Len(buf) THEN Panic("RuntimePanic")
      ELSE Ok(String(SubSeq(buf, d.n + 1, d.n + d.ln)), d.n + d.ln)

RECURSIVE decode(_)

\* the loop of decodeType4: i items left to decode from buf[n:]
RECURSIVE decodeType4Loop(_, _, _, _)

decodeType4Loop(buf, n, i, arr) ==
  IF i = 0 THEN Ok(Array(arr), n)
  ELSE IF n > Len(buf) THEN Panic("RuntimePanic")
  ELSE LET r == decode(From(buf, n))
       IN  IF r.err # "" THEN r
           ELSE decodeType4Loop(buf, n + r.n, i - 1, Append(arr, r.val))

decodeType4(buf) ==
  LET d == decodeLength(buf)
  IN  IF ~d.ok THEN Panic("RuntimePanic")
      ELSE decodeType4Loop(buf, d.n, d.ln, <<>>)

\* key, n1 := decode(buf[n:]); value, n2 := decode(buf[n+n1:])
decodePair(buf, n) ==
  IF n > Len(buf) THEN Panic("RuntimePanic")
  ELSE LET key == decode(From(buf, n))
       IN  IF key.err # "" THEN key
           ELSE IF n + key.n > Len(buf) THEN Panic("RuntimePanic")
           ELSE LET value == decode(From(buf, n + key.n))
                IN  IF value.err # "" THEN value
                    ELSE Ok(<<key.val, value.val>>, key.n + value.n)

RECURSIVE decodeType5Loop(_, _, _, _)

decodeType5Loop(buf, n, i, pairs) ==
  IF i = 0 THEN Ok(Map(pairs), n)
  ELSE LET r == decodePair(buf, n)
       IN  IF r.err # "" THEN r
           ELSE decodeType5Loop(buf, n + r.n, i - 1, Append(pairs, r.val))

decodeType5(buf) ==
  LET d == decodeLength(buf)
  IN  IF ~d.ok THEN Panic("RuntimePanic")
      ELSE decodeType5Loop(buf, d.n, d.ln, <<>>)

\* a break-stop refused by its handler
decodeBreakCodeFails(buf) == Panic("DecodeBreakStop")

decodeBreakCode(buf) == Ok(BreakStop(buf[1]), 1)

\* Tagged items: read the tag number as a type-0 integer, decode the tagged
\* content, and wrap it.
decodeTag(buf) ==
  LET w == PayloadWidth(info(buf[1]))
  IN  IF Len(buf) < 1 + w + 1 THEN Panic("RuntimePanic")
      ELSE LET r == decode(From(buf, 1 + w))
           IN  IF r.err # "" THEN r
               ELSE Ok(Val("tag", 0, SubSeq(buf, 1, 1 + w), <<r.val>>, <<>>),
                       1 + w + r.n)

\* cborDecoders[buf[0]](buf)
CallDecoder(e, buf) ==
  CASE e.fn = "makePanic" -> Panic(e.arg)
    [] e.fn = "decodeType0SmallInt" -> decodeType0SmallInt(buf)
    [] e.fn = "decodeType0Info24" -> decodeType0Info(buf, 1)
    [] e.fn = "decodeType0Info25" -> decodeType0Info(buf, 2)
    [] e.fn = "decodeType0Info26" -> decodeType0Info(buf, 4)
    [] e.fn = "decodeType0Info27" -> decodeType0Info(buf, 8)
    [] e.fn = "decodeType1SmallInt" -> decodeType1SmallInt(buf)
    [] e.fn = "decodeType1Info24" -> decodeType1Info(buf, 1)
    [] e.fn = "decodeType1Info25" -> decodeType1Info(buf, 2)
    [] e.fn = "decodeType1Info26" -> decodeType1Info(buf, 4)
    [] e.fn = "decodeType1Info27" -> decodeType1Info27(buf)
    [] e.fn = "decodeType2" -> decodeType2(buf)
    [] e.fn = "decodeType3" -> decodeType3(buf)
    [] e.fn = "decodeType4" -> decodeType4(buf)
    [] e.fn = "decodeType5" -> decodeType5(buf)
    [] e.fn \in {"decodeType2Indefinite", "decodeType3Indefinite",
                 "decodeType4Indefinite", "decodeType5Indefinite"} ->
         Ok(Indefinite(buf[1]), 1)
    [] e.fn = "decodeTag" -> decodeTag(buf)
    [] e.fn = "simple" -> Ok(UintV(8, <<info(e.h)>>), 1)
    [] e.fn = "decodeFalse" -> Ok(Bool(FALSE), 1)
    [] e.fn = "decodeTrue" -> Ok(Bool(TRUE), 1)
    [] e.fn = "decodeNull" -> Ok(Nil, 1)
    [] e.fn = "decodeUndefined" -> Ok(Undefined, 1)
    [] e.fn = "decodeSimpleTypeByte" -> decodeSimpleTypeByte(buf)
    [] e.fn = "decodeFloat16" -> Panic("DecodeFloat16")
    [] e.fn = "decodeFloat32" -> decodeFloat(buf, 4)
    [] e.fn = "decodeFloat64" -> decodeFloat(buf, 8)
    [] e.fn = "decodeBreakCode" -> decodeBreakCode(buf)

\* the loops of decode over an indefinite array and an indefinite map
RECURSIVE decodeArrayUntilBreak(_, _, _)

\* the loop over an indefinite array with the closing break-stop left
\* out of the count
RECURSIVE decodeArrayUntilBreakShort(_, _, _)

decodeArrayUntilBreakShort(buf, n, arr) ==
  IF n >= Len(buf) THEN Panic("RuntimePanic")
  ELSE IF buf[n + 1] = brkstp THEN Ok(Array(arr), n)
  ELSE LET r == decode(From(buf, n))
       IN  IF r.err # "" THEN r
           ELSE decodeArrayUntilBreakShort(buf, n + r.n, Append(arr, r.val))

decodeArrayUntilBreak(buf, n, arr) ==
  IF n >= Len(buf) THEN Panic("RuntimePanic")
  ELSE IF buf[n + 1] = brkstp THEN Ok(Array(arr), n + 1)
  ELSE LET r == decode(From(buf, n))
       IN  IF r.err # "" THEN r
           ELSE decodeArrayUntilBreak(buf, n + r.n, Append(arr, r.val))

RECURSIVE decodeMapUntilBreak(_, _, _)

decodeMapUntilBreak(buf, n, pairs) ==
  IF n >= Len(buf) THEN Panic("RuntimePanic")
  ELSE IF buf[n + 1] = brkstp THEN Ok(Map(pairs), n + 1)
  ELSE LET r == decodePair(buf, n)
       IN  IF r.err # "" THEN r
           ELSE decodeMapUntilBreak(buf, n + r.n, Append(pairs, r.val))

decode(buf) ==
  IF Len(buf) = 0 \/ buf[1] \notin DOMAIN cborDecoders
  THEN Panic("RuntimePanic")
  ELSE LET r == CallDecoder(cborDecoders[buf[1]], buf)
       IN  IF r.err = "" /\ r.val.k = "Indefinite" /\ major(buf[1]) = type4
           THEN decodeArrayUntilBreak(buf, r.n, <<>>)
           ELSE IF r.err = "" /\ r.val.k = "Indefinite"
                   /\ major(buf[1]) = type5
           THEN decodeMapUntilBreak(buf, r.n, <<>>)
           ELSE r

\* ------------------------------------------------------ JSON pointers

maxPartSize == 1024

\* tag-header(tag): the tag number written like a type-0 integer, retagged
encodeTag(tag) == Retag(encodeUint64(tag), type6)

IsIndefiniteText(b) == b = hdr(type3, indefiniteLength)

Slash == 47

Tilde == 126

Digit0 == 48

Digit1 == 49

\* n += encodeTag(uint64(tagJsonString), out[n:])
\* n += encodeText(bytes2str(part[:off]), out[n:])
EmitSegment(out, part) ==
  out \o encodeTag(IntLit(8, tagJsonString)) \o encodeText(part)

\* FromJsonPointer's locals: i, part[:off] (off is its length) and the bytes
\* out[0..n) written so far
FromEnter(path) ==
  IF Len(path) > 0 /\ path[1] # Slash
  THEN [err |-> "ExpectedJsonPointer", i |-> 0, part |-> <<>>, out |-> <<>>]
  ELSE [err |-> "", i |-> 0, part |-> <<>>, out |-> encodeTextStart]

\* one iteration of the loop over path, entered with i < len(path)
FromIter(path, st) ==
  LET c == path[st.i + 1]
      off == Len(st.part)
  IN  IF c = Tilde
      THEN IF st.i + 1 >= Len(path) THEN [st EXCEPT !.err = "RuntimePanic"]
           ELSE IF off >= maxPartSize /\ path[st.i + 2] \in {Digit0, Digit1}
           THEN [st EXCEPT !.err = "RuntimePanic"]
           ELSE IF path[st.i + 2] = Digit1
           THEN [st EXCEPT !.part = Append(@, Slash), !.i = @ + 2]
           ELSE IF path[st.i + 2] = Digit0
           THEN [st EXCEPT !.part = Append(@, Tilde), !.i = @ + 2]
           ELSE st
      ELSE IF c = Slash
      THEN IF off > 0
           THEN [st EXCEPT !.out = EmitSegment(@, st.part), !.part = <<>>,
                           !.i = @ + 1]
           ELSE [st EXCEPT !.i = @ + 1]
      ELSE IF off >= maxPartSize THEN [st EXCEPT !.err = "RuntimePanic"]
      ELSE [st EXCEPT !.part = Append(@, c), !.i = @ + 1]

\* after the loop: the last segment and the break-stop
FromExit(path, st) ==
  IF Len(st.part) > 0 \/ (Len(path) > 0 /\ path[Len(path)] = Slash)
  THEN EmitSegment(st.out, st.part) \o encodeBreakStop
  ELSE st.out \o encodeBreakStop

\* FromJsonPointer run to its end, for a path that makes every iteration
\* advance: the bytes out[0..n)
RECURSIVE FromLoop(_, _)

FromLoop(path, st) ==
  IF st.err # "" THEN <<>>
  ELSE IF st.i < Len(path) THEN FromLoop(path, FromIter(path, st))
  ELSE FromExit(path, st)

FromJsonPointer(path) == FromLoop(path, FromEnter(path))

\* the escaped bytes of bin[i..ln) appended to out
RECURSIVE CopyEscaped(_, _, _, _)

CopyEscaped(bin, i, ln, out) ==
  IF i >= ln THEN out
  ELSE CopyEscaped(bin, i + 1, ln,
         IF bin[i + 1] = Slash THEN out \o <<Tilde, Digit1>>
         ELSE IF bin[i + 1] = Tilde THEN out \o <<Tilde, Digit0>>
         ELSE Append(out, bin[i + 1]))

\* ToJsonPointer's locals: i and the bytes out[0..n) written so far
ToEnter(bin) ==
  IF Len(bin) = 0 THEN [err |-> "RuntimePanic", i |-> 0, out |-> <<>>,
                        brk |-> FALSE]
  ELSE IF ~IsIndefiniteText(bin[1])
  THEN [err |-> "ExpectedCborPointer", i |-> 0, out |-> <<>>, brk |-> FALSE]
  ELSE [err |-> "", i |-> 1, out |-> <<>>, brk |-> FALSE]

\* the segment at bin[i]: a '/', then the text with its escapes
ToSegment(bin, st) ==
  LET i == st.i + 2
  IN  IF i >= Len(bin) THEN [st EXCEPT !.err = "RuntimePanic"]
      ELSE LET d == decodeLength(From(bin, i))
           IN  IF ~d.ok \/ d.ln + i + d.n > Len(bin)
               THEN [st EXCEPT !.err = "RuntimePanic"]
               ELSE [st EXCEPT
                       !.out = CopyEscaped(bin, i + d.n, d.ln + i + d.n,
                                           Append(@, Slash)),
                       !.i = d.ln + i + d.n]

\* after the segment, if any: if bin[i] == brkstp { break }
ToBreak(bin, st) ==
  IF st.err # "" THEN st
  ELSE IF st.i >= Len(bin) THEN [st EXCEPT !.err = "RuntimePanic"]
  ELSE [st EXCEPT !.brk = (bin[st.i + 1] = brkstp)]

\* one iteration of the loop
ToIter(bin, st) ==
  IF st.i >= Len(bin) THEN [st EXCEPT !.err = "RuntimePanic"]
  ELSE IF bin[st.i + 1] = hdr(type6, info24)
  THEN IF st.i + 1 >= Len(bin) THEN [st EXCEPT !.err = "RuntimePanic"]
       ELSE IF bin[st.i + 2] = tagJsonString
       THEN ToBreak(bin, ToSegment(bin, st))
       ELSE ToBreak(bin, st)
  ELSE ToBreak(bin, st)

\* ------------------------------------------------------------ walker
\* A walker's result is the number or the range it returns, or the error it
\* panics with.

Num(x) == [err |-> "", n |-> x]

Fail(e) == [err |-> e, n |-> 0]

Range(a, b) == [err |-> "", start |-> a, end |-> b]

NoRange(e) == [err |-> e, start |-> 0, end |-> 0]

RECURSIVE itemsEnd(_)

\* the loop of arrayIndex; with index = -1 (or 0) it is never entered
RECURSIVE arrayIndexLoop(_, _, _, _)

\* n += m, count++ with m the result of itemsEnd(arr[n:])
arrayIndexStep(arr, index, count, n, m) ==
  IF m.err # "" THEN m ELSE arrayIndexLoop(arr, index, count + 1, n + m.n)

arrayIndexLoop(arr, index, count, n) ==
  IF ~(index > 0 /\ count < index) THEN Num(n)
  ELSE IF n > Len(arr) THEN Fail("RuntimePanic")
  ELSE arrayIndexStep(arr, index, count, n, itemsEnd(From(arr, n)))

arrayIndex(arr, index) == arrayIndexLoop(arr, index, 0, 0)

\* the loop of itemsEnd over the pairs of an indefinite map
RECURSIVE itemsEndMapLoop(_, _)

\* n += itemsEnd(buf[n:]) for the value, v its result
itemsEndMapValue(buf, n, v) ==
  IF v.err # "" THEN v ELSE itemsEndMapLoop(buf, n + v.n)

\* n += itemsEnd(buf[n:]) for the key, k its result
itemsEndMapKey(buf, n, k) ==
  IF k.err # "" THEN k
  ELSE IF n + k.n > Len(buf) THEN Fail("RuntimePanic")
  ELSE itemsEndMapValue(buf, n + k.n, itemsEnd(From(buf, n + k.n)))

itemsEndMapLoop(buf, n) ==
  IF ~(n < Len(buf)) THEN Fail("InvalidDocument")
  ELSE IF buf[n + 1] = brkstp THEN Num(n + 1)
  ELSE itemsEndMapKey(buf, n, itemsEnd(From(buf, n)))

\* 2^k
Shl1(k) == 2 ^ k

\* ln, n := decodeLength(buf); return n + ln, after the first skip bytes
itemsEndText(skip, d) ==
  IF ~d.ok THEN Fail("RuntimePanic") ELSE Num(skip + d.n + d.ln)

\* n += itemsEnd(buf[n:]); return n + 1, with e the result of that itemsEnd
itemsEndArrayBreak(n, e) ==
  IF e.err # "" THEN e ELSE Num(n + e.n + 1)

\* n = 1 + arrayIndex(buf[1:], -1), a the result of that arrayIndex
itemsEndArray(buf, a) ==
  IF a.err # "" THEN a
  ELSE itemsEndArrayBreak(1 + a.n, itemsEnd(From(buf, 1 + a.n)))

itemsEnd(buf) ==
  IF Len(buf) = 0 THEN Fail("RuntimePanic")
  ELSE
  LET mjr == major(buf[1])
      inf == info(buf[1])
  IN  IF mjr = type0 \/ mjr = type1
      THEN IF inf < info24 THEN Num(1) ELSE Num(Shl1(inf - info24) + 1)
      ELSE IF mjr = type3
      THEN itemsEndText(0, decodeLength(buf))
      ELSE IF mjr = type4 /\ inf = indefiniteLength
      THEN itemsEndArray(buf, arrayIndex(From(buf, 1), -1))
      ELSE IF mjr = type5 /\ inf = indefiniteLength
      THEN itemsEndMapLoop(buf, 1)
      ELSE IF mjr = type7
      THEN IF inf \in {simpleTypeNil, simpleTypeFalse, simpleTypeTrue}
           THEN Num(1)
           ELSE IF inf = flt32 THEN Num(1 + 4)
           ELSE IF inf = flt64 THEN Num(1 + 8)
           ELSE Fail("InvalidDocument")
      ELSE IF mjr = type6
      THEN IF Len(buf) < 2 THEN Fail("RuntimePanic")
           ELSE IF buf[2] # tagJsonString THEN Fail("InvalidDocument")
           ELSE IF Len(buf) < 3 THEN Fail("RuntimePanic")
           ELSE IF major(buf[3]) # type3 THEN Fail("InvalidDocument")
           ELSE itemsEndText(2, decodeLength(From(buf, 2)))
      ELSE Fail("InvalidDocument")

\* the loop of mapIndex: bytes.Compare(part, buf[n:m]) with m the length of
\* the key that starts at n
RECURSIVE mapIndexLoop(_, _, _)

\* n += itemsEnd(buf[n:]) for the value, q its result
mapIndexValue(buf, part, n, q) ==
  IF q.err # "" THEN q ELSE mapIndexLoop(buf, part, n + q.n)

\* m := itemsEnd(buf[n:]), then the comparison and n += m
mapIndexKey(buf, part, n, m) ==
  IF m.err # "" THEN m
  ELSE IF n > m.n \/ m.n > Len(buf) THEN Fail("RuntimePanic")
  ELSE IF part = SubSeq(buf, n + 1, m.n) THEN Num(n)
  ELSE IF n + m.n > Len(buf) THEN Fail("RuntimePanic")
  ELSE mapIndexValue(buf, part, n + m.n, itemsEnd(From(buf, n + m.n)))

mapIndexLoop(buf, part, n) ==
  IF ~(n < Len(buf)) THEN Fail("MalformedDocument")
  ELSE IF buf[n + 1] = brkstp THEN Fail("NoKey")
  ELSE mapIndexKey(buf, part, n, itemsEnd(From(buf, n)))

mapIndex(buf, part) == mapIndexLoop(buf, part, 0)

\* strconv.Atoi: an optional sign and decimal digits, here below 2^24
IsDigits(s) == Len(s) > 0 /\ \A i \in 1..Len(s) : s[i] \in 48..57

RECURSIVE DigitsValue(_)

\* the number after one more digit, saturating at Huge
DigitsAppend(v, d) == IF v >= Huge THEN Huge ELSE 10 * v + (d - 48)

DigitsValue(s) ==
  IF s = <<>> THEN 0
  ELSE DigitsAppend(DigitsValue(SubSeq(s, 1, Len(s) - 1)), s[Len(s)])

AtoiSigned(sign, v) ==
  [ok |-> TRUE, v |-> IF sign = 45 THEN -v ELSE v]

Atoi(s) ==
  IF Len(s) > 0 /\ s[1] \in {43, 45}
  THEN IF IsDigits(Tail(s)) THEN AtoiSigned(s[1], DigitsValue(Tail(s)))
       ELSE [ok |-> FALSE, v |-> 0]
  ELSE IF IsDigits(s) THEN AtoiSigned(43, DigitsValue(s))
  ELSE [ok |-> FALSE, v |-> 0]

\* return n, n+m with m the result of itemsEnd(doc[n:])
partialArrayEnd(n, m) ==
  IF m.err # "" THEN NoRange(m.err) ELSE Range(n, n + m.n)

\* n := arrayIndex(doc[1:], index), a its result; m := itemsEnd(doc[n:])
partialArrayAt(doc, a) ==
  IF a.err # "" THEN NoRange(a.err)
  ELSE IF a.n > Len(doc) THEN NoRange("RuntimePanic")
  ELSE partialArrayEnd(a.n, itemsEnd(From(doc, a.n)))

\* n := arrayIndex(doc[1:], index); m := itemsEnd(doc[n:]); return n, n+m
partialArray(doc, index) ==
  partialArrayAt(doc, arrayIndex(From(doc, 1), index))

\* return n+m, n+m+p with q the result of p := itemsEnd(doc[n+m:])
partialMapEnd(nm, q) ==
  IF q.err # "" THEN NoRange(q.err) ELSE Range(nm, nm + q.n)

\* m := itemsEnd(doc[n:]), m its result; p := itemsEnd(doc[n+m:])
partialMapValue(doc, n, m) ==
  IF m.err # "" THEN NoRange(m.err)
  ELSE IF n + m.n > Len(doc) THEN NoRange("RuntimePanic")
  ELSE partialMapEnd(n + m.n, itemsEnd(From(doc, n + m.n)))

\* n := mapIndex(doc[1:], part), a its result; m := itemsEnd(doc[n:])
partialMapAt(doc, a) ==
  IF a.err # "" THEN NoRange(a.err)
  ELSE IF a.n > Len(doc) THEN NoRange("RuntimePanic")
  ELSE partialMapValue(doc, a.n, itemsEnd(From(doc, a.n)))

\* n := mapIndex(doc[1:], part); m := itemsEnd(doc[n:]);
\* p := itemsEnd(doc[n+m:]); return n+m, n+m+p
partialMap(doc, part) == partialMapAt(doc, mapIndex(From(doc, 1), part))

\* index, err := strconv.Atoi(part), a its result
partialIndex(doc, a) ==
  IF ~a.ok THEN NoRange("InvalidArrayOffset") ELSE partialArray(doc, a.v)

partial(part, doc) ==
  IF Len(doc) = 0 THEN NoRange("RuntimePanic")
  ELSE IF doc[1] = hdr(type4, indefiniteLength)
  THEN IF Len(part) = 0 THEN NoRange("RuntimePanic")
       ELSE IF part[1] = 45 THEN partialIndex(doc, [ok |-> TRUE, v |-> -1])
       ELSE partialIndex(doc, Atoi(part))
  ELSE IF doc[1] = hdr(type5, indefiniteLength)
  THEN partialMap(doc, part)
  ELSE NoRange("InvalidPointer")

\* the loop of lookup: doc = doc[n:m], then the next segment
RECURSIVE lookupLoop(_, _, _, _, _)

\* n, m = partial(part, doc), r its result; i advanced past the segment
lookupNext(pointer, i, doc, r) ==
  IF r.err # "" THEN r ELSE lookupLoop(pointer, i, doc, r.start, r.end)

\* ln, j := decodeLength(pointer[i+2:]), d its result; doc already doc[n:m]
lookupSegment(pointer, i, doc, d) ==
  IF ~d.ok \/ i + 2 + d.n + d.ln > Len(pointer) THEN NoRange("RuntimePanic")
  ELSE lookupNext(pointer, i + 2 + d.n + d.ln, doc,
                  partial(SubSeq(pointer, i + 2 + d.n + 1,
                                 i + 2 + d.n + d.ln), doc))

lookupLoop(pointer, i, doc, n, m) ==
  IF ~(i < Len(pointer) /\ pointer[i + 1] # brkstp) THEN Range(n, m)
  ELSE IF n > m \/ m > Len(doc) THEN NoRange("RuntimePanic")
  ELSE IF pointer[i + 1] # hdr(type6, info24) THEN NoRange("InvalidPointer")
  ELSE IF i + 1 >= Len(pointer) THEN NoRange("RuntimePanic")
  ELSE IF pointer[i + 2] # tagJsonString THEN NoRange("InvalidPointer")
  ELSE IF i + 2 >= Len(pointer) THEN NoRange("RuntimePanic")
  ELSE lookupSegment(pointer, i, SubSeq(doc, n + 1, m),
                     decodeLength(From(pointer, i + 2)))

lookup(pointer, doc) ==
  IF Len(pointer) = 0 THEN NoRange("RuntimePanic")
  ELSE IF ~IsIndefiniteText(pointer[1]) THEN NoRange("ExpectedCborPointer")
  ELSE IF Len(pointer) < 2 THEN NoRange("RuntimePanic")
  ELSE IF pointer[2] = brkstp THEN Range(0, Len(doc))
  ELSE lookupLoop(pointer, 1, doc, 0, Len(doc))

\* copy(dst, src): the first min(len(dst), len(src)) bytes of dst replaced
copy(dst, src) ==
  [i \in 1..Len(dst) |-> IF i <= Len(src) THEN src[i] ELSE dst[i]]

\* return doc[n:m], with r the result of n, m := lookup(pointer, doc)
getSlice(doc, r) ==
  IF r.err # "" THEN [err |-> r.err, out |-> <<>>]
  ELSE IF r.start > r.end \/ r.end > Len(doc)
  THEN [err |-> "RuntimePanic", out |-> <<>>]
  ELSE [err |-> "", out |-> SubSeq(doc, r.start + 1, r.end)]

get(doc, pointer) == getSlice(doc, lookup(pointer, doc))

\* copy(out, doc[:n]); copy(out, new); copy(out, doc[m:])
setCopy(doc, r, new, out) ==
  IF r.err # "" THEN [err |-> r.err, out |-> out]
  ELSE IF r.start > Len(doc) THEN [err |-> "RuntimePanic", out |-> out]
  ELSE IF r.end > Len(doc)
  THEN [err |-> "RuntimePanic",
        out |-> copy(copy(out, SubSeq(doc, 1, r.start)), new)]
  ELSE [err |-> "",
        out |-> copy(copy(copy(out, SubSeq(doc, 1, r.start)), new),
                     From(doc, r.end))]

set(doc, pointer, new, out) == setCopy(doc, lookup(pointer, doc), new, out)

\* copy(out, doc[:n]); copy(out, doc[m:])
delCopy(doc, r, out) ==
  IF r.err # "" THEN [err |-> r.err, out |-> out]
  ELSE IF r.start > Len(doc) THEN [err |-> "RuntimePanic", out |-> out]
  ELSE IF r.end > Len(doc)
  THEN [err |-> "RuntimePanic", out |-> copy(out, SubSeq(doc, 1, r.start))]
  ELSE [err |-> "",
        out |-> copy(copy(out, SubSeq(doc, 1, r.start)), From(doc, r.end))]

del(doc, pointer, out) == delCopy(doc, lookup(pointer, doc), out)

\* ------------------------------------------------------- codec inputs

SeqsUpTo(S, k) == UNION {[1..m -> S] : m \in 0..k}

Pow63 == <<0, 0, 0, 0, 0, 0, 0, 128>>

\* integers at and around every width boundary, for every encoder
IntSamples ==
  {IntV(8, IntLit(1, x)) : x \in {-128, -25, -24, -23, -1, 0, 23, 24, 127}}
  \cup {UintV(8, IntLit(1, x)) : x \in {0, 23, 24, 255}}
  \cup {IntV(16, IntLit(2, x)) :
          x \in {-32768, -257, -256, -255, -129, -128, -24, -1, 0, 23, 24,
                 127, 128, 255, 256, 32767}}
  \cup {UintV(16, IntLit(2, x)) : x \in {0, 24, 255, 256, 65535}}
  \cup {IntV(32, IntLit(4, x)) :
          x \in {-2147483647 - 1, -65537, -65536, -65535, -32769, -32768,
                 -256, -1, 0, 255, 32767, 32768, 65535, 65536, 2147483647}}
  \cup {UintV(32, x) : x \in {IntLit(4, 0), IntLit(4, 65535),
                             IntLit(4, 65536), IntLit(4, -1)}}
  \cup {IntV(64, x) :
          x \in {Pow63, Inc(Pow63), Dec(WNeg4294967296), WNeg4294967296,
                 Inc(WNeg4294967296), Dec(IntLit(8, -2147483647 - 1)),
                 IntLit(8, -2147483647 - 1), IntLit(8, -65536),
                 IntLit(8, -256), IntLit(8, -25), IntLit(8, -24),
                 IntLit(8, -1), IntLit(8, 0), IntLit(8, 23), IntLit(8, 24),
                 IntLit(8, 65536), IntLit(8, 2147483647),
                 Inc(IntLit(8, 2147483647)), Dec(W4294967296), W4294967296,
                 W9223372036854775807}}
  \cup {UintV(64, x) :
          x \in {IntLit(8, 0), IntLit(8, 23), IntLit(8, 24), IntLit(8, 256),
                 Dec(W4294967296), W4294967296, W9223372036854775807, Pow63,
                 IntLit(8, -1)}}

StringSamples ==
  {String(<<>>), String(<<97>>), String(<<47, 126>>),
   String([i \in 1..24 |-> 97]), String([i \in 1..256 |-> 98]),
   Bytes(<<>>), Bytes(<<0>>), Bytes(<<255, 1>>),
   Bytes([i \in 1..24 |-> 255])}

Leaves == {Nil, Bool(TRUE), Bool(FALSE)} \cup IntSamples \cup StringSamples

\* the elements of the sampled containers
ElemSamples ==
  {Nil, Bool(TRUE), IntV(8, IntLit(1, -24)), UintV(16, IntLit(2, 256)),
   String(<<97>>), Bytes(<<255>>)}

InnerSamples ==
  {Array(<<>>), Array(<<IntV(64, IntLit(8, -1)), String(<<>>)>>), Map(<<>>),
   Map(<<<<String(<<97>>), UintV(8, <<1>>)>>>>)}

PairSamples ==
  {<<String(<<97>>), Nil>>, <<String(<<98>>), IntV(16, IntLit(2, -256))>>,
   <<UintV(8, <<24>>), Array(<<Bool(FALSE)>>)>>,
   <<String(<<97>>), Map(<<<<Nil, Nil>>>>)>>}

Values ==
  Leaves
  \cup {Array(a) : a \in SeqsUpTo(ElemSamples, MaxLen)}
  \cup {Array(a) : a \in SeqsUpTo(InnerSamples \cup {Nil}, MaxLen)}
  \cup {Map(m) : m \in SeqsUpTo(PairSamples, MaxLen)}
  \cup {Array([i \in 1..24 |-> Nil])}

\* Well-formed data-items written out from RFC 7049, each with no tag, no
\* indefinite-length string and no float16, and all within the signed range.
ItemLeaves ==
  {<<0>>, <<23>>, <<24, 24>>, <<24, 255>>, <<25, 1, 0>>, <<26, 0, 1, 0, 0>>,
   <<27, 0, 0, 0, 1, 0, 0, 0, 0>>, <<32>>, <<55>>, <<56, 24>>, <<56, 254>>,
   <<57, 1, 0>>, <<58, 0, 1, 0, 0>>,
   <<59, 127, 255, 255, 255, 255, 255, 255, 255>>,
   <<64>>, <<65, 255>>, <<88, 1, 255>>, <<89, 0, 2, 1, 2>>,
   <<96>>, <<97, 97>>, <<120, 2, 97, 98>>,
   <<224>>, <<243>>, <<244>>, <<245>>, <<246>>, <<247>>, <<248, 32>>,
   <<250, 63, 128, 0, 0>>, <<251, 63, 240, 0, 0, 0, 0, 0, 0>>}

RECURSIVE Concat(_)

Concat(ss) == IF ss = <<>> THEN <<>> ELSE Head(ss) \o Concat(Tail(ss))

DefArrayItem(items) == <<type4 + Len(items)>> \o Concat(items)

IndefArrayItem(items) ==
  <<type4 + indefiniteLength>> \o Concat(items) \o <<brkstp>>

DefMapItem(items) == <<type5 + (Len(items) \div 2)>> \o Concat(items)

IndefMapItem(items) ==
  <<type5 + indefiniteLength>> \o Concat(items) \o <<brkstp>>

ItemElems == {<<1>>, <<56, 24>>, <<97, 97>>, <<246>>}

ItemInner ==
  {DefArrayItem(<<>>), IndefArrayItem(<<>>), IndefArrayItem(<<<<1>>, <<2>>>>),
   DefMapItem(<<<<97, 97>>, <<1>>>>), IndefMapItem(<<>>),
   IndefMapItem(<<<<97, 98>>, <<159, 255>>>>)}

EvenSeqs(S, k) == {s \in SeqsUpTo(S, 2 * k) : Len(s) % 2 = 0}

WellFormedItems ==
  ItemLeaves
  \cup {DefArrayItem(a) : a \in SeqsUpTo(ItemElems, MaxLen)}
  \cup {IndefArrayItem(a) : a \in SeqsUpTo(ItemElems, MaxLen)}
  \cup {DefArrayItem(a) : a \in SeqsUpTo(ItemInner, MaxLen)}
  \cup {IndefArrayItem(a) : a \in SeqsUpTo(ItemInner, MaxLen)}
  \cup {DefMapItem(a) : a \in EvenSeqs(ItemInner \cup {<<1>>}, 1)}
  \cup {IndefMapItem(a) : a \in EvenSeqs(ItemInner \cup {<<1>>}, 1)}
  \cup {<<type4 + info24, 1, 246>>, <<type5 + info25, 0, 1, 1, 2>>}

\* indefinite-length byte and text strings: header, definite chunks, break
ChunkSamples(typ) == {<<typ>>, <<typ + 1, 97>>, <<typ + 2, 98, 99>>}

IndefStringItem(typ, chunks) ==
  <<typ + indefiniteLength>> \o Concat(chunks) \o <<brkstp>>

IndefStringItems ==
  UNION {{IndefStringItem(typ, c) : c \in SeqsUpTo(ChunkSamples(typ), MaxLen)} :
           typ \in {type2, type3}}

\* a break-stop as the top-level item, and as an item, a key or a value of a
\* definite-length array or map
HasBreak(a) == \E i \in 1..Len(a) : a[i] = <<brkstp>>

BreakItems ==
  {<<brkstp>>, <<type4 + info24, 1, brkstp>>,
   DefArrayItem(<<DefArrayItem(<<<<brkstp>>>>)>>)}
  \cup {DefArrayItem(a) :
          a \in {x \in SeqsUpTo(ItemElems \cup {<<brkstp>>}, MaxLen) :
                   HasBreak(x)}}
  \cup {DefMapItem(a) :
          a \in {x \in EvenSeqs(ItemElems \cup {<<brkstp>>}, 1) : HasBreak(x)}}

\* every header byte, alone and followed by a payload
HeaderItems ==
  {<<h>> \o p : h \in 0..255, p \in {<<>>, <<1, 2, 3, 4, 5, 6, 7, 8, 255>>}}

\* the item of a value with every array and map in the indefinite-length
\* form: header, items or pairs, break-stop
RECURSIVE IndefItem(_)

IndefItem(v) ==
  IF v.k = "array"
  THEN IndefArrayItem([i \in 1..Len(v.items) |-> IndefItem(v.items[i])])
  ELSE IF v.k = "map"
  THEN IndefMapItem(
         [i \in 1..(2 * Len(v.pairs)) |->
            IndefItem(v.pairs[(i + 1) \div 2][2 - (i % 2)])])
  ELSE encode(v)

NestInner ==
  {Array(<<>>), Array(<<Nil>>), Map(<<>>),
   Map(<<<<String(<<97>>), Array(<<>>)>>>>), Array(<<Array(<<>>), Nil>>),
   Array(<<Map(<<>>)>>)}

NestElems == NestInner \cup {Nil, UintV(8, <<1>>)}

\* arrays and maps that hold arrays and maps, two and three levels deep
NestedValues ==
  {Array(a) : a \in SeqsUpTo(NestElems, MaxLen)}
  \cup {Map(<<<<k, v>>>>) : k \in NestElems, v \in NestElems}
  \cup {Map(<<<<String(<<97>>), v>>, <<Nil, w>>>>) :
           v \in NestInner, w \in NestInner}

\* payloads of w bytes in buffer order: 0, 1, 24, 2^(8w-1) - 1, 2^(8w-1),
\* 2^(8w) - 2 and the all-ones 2^(8w) - 1
PayloadSamples(w) ==
  {[i \in 1..w |-> 0], [i \in 1..w |-> IF i = w THEN 1 ELSE 0],
   [i \in 1..w |-> IF i = w THEN 24 ELSE 0],
   [i \in 1..w |-> IF i = 1 THEN 127 ELSE 255],
   [i \in 1..w |-> IF i = 1 THEN 128 ELSE 0],
   [i \in 1..w |-> IF i = w THEN 254 ELSE 255], [i \in 1..w |-> 255]}

\* major type 1 with info 24..27 and a payload of 1, 2, 4, 8 bytes
NegativeItems ==
  UNION {{<<hdr(type1, y)>> \o p : p \in PayloadSamples(PayloadWidth(y))} :
           y \in {info24, info25, info26, info27}}

Trails == SeqsUpTo({0, brkstp}, MaxTrail)

\* ------------------------------------------------------ pointer inputs

MaxPath == 5

\* text pointers over '/', '~', '0', '1' and 'a'
PathBytes == {Slash, Tilde, Digit0, Digit1, 97}

Paths == SeqsUpTo(PathBytes, MaxPath)

\* RFC 6901: empty, or starting with '/', and '~' only in ~0 and ~1
ValidPointer(p) ==
  /\ Len(p) > 0 => p[1] = Slash
  /\ \A i \in 1..Len(p) :
       p[i] = Tilde => (i < Len(p) /\ p[i + 1] \in {Digit0, Digit1})

MaxFrame == 4

\* the bytes of a CBOR pointer frame: the tag header, tag 33, a one-byte
\* text header, a small integer, break-stop
FrameBytes == {hdr(type6, info24), tagJsonString, type3 + 1, 1, brkstp}

\* frames that begin with the indefinite-text header
Frames ==
  {<<hdr(type3, indefiniteLength)>> \o s : s \in SeqsUpTo(FrameBytes, MaxFrame)}

\* ------------------------------------------------------- walker inputs

MaxItems == 3

MaxSegs == 2

WalkElems ==
  {<<1>>, <<2>>, <<3>>, IndefArrayItem(<<<<1>>, <<2>>>>),
   IndefMapItem(<<<<97, 97>>, <<1>>>>)}

\* text keys "a", "b" and "aa", each with a value
WalkPairs ==
  {<<k, v>> : k \in {<<97, 97>>, <<97, 98>>, <<98, 97, 97>>},
              v \in {<<1>>, IndefArrayItem(<<<<1>>, <<2>>>>)}}

\* the segments "0", "1", "2", "-", "a", "b", "aa"
WalkSegs == {<<48>>, <<49>>, <<50>>, <<45>>, <<97>>, <<98>>, <<97, 97>>}

\* the text pointer with these segments
RECURSIVE PathOf(_)

PathOf(segs) ==
  IF segs = <<>> THEN <<>> ELSE <<Slash>> \o Head(segs) \o PathOf(Tail(segs))

RECURSIVE Flatten(_)

Flatten(pairs) ==
  IF pairs = <<>> THEN <<>>
  ELSE <<Head(pairs)[1], Head(pairs)[2]>> \o Flatten(Tail(pairs))

NewItems == {<<5>>, <<97, 122>>}

\* --------------------------------------------------------------- state

VARIABLES
  pc,      \* where the caller is: "ready", then per operation, then "done"
           \* or "panic"
  task,    \* codec: "roundtrip" encodes item and decodes the output;
           \* "wellformed", "indefstring", "break", "header" decode buf
  item,    \* the value given to encode
  out,     \* the bytes encode wrote at out[0..n)
  n,       \* the count encode returned
  buf,     \* the buffer given to decode
  blen,    \* the length of the data-item at the front of buf
  res,     \* what decode returned
  path,    \* the text pointer
  fromSt,  \* FromJsonPointer's locals and output
  bin,     \* the CBOR pointer given to ToJsonPointer
  toSt,    \* ToJsonPointer's locals and output
  kind,    \* the document: "array" or "map"
  elems,   \* the encoded items (array) or pairs (map) of the document
  segs,    \* the segments of the pointer
  doc,     \* the document
  pointer, \* the CBOR pointer given to lookup, get, set and del
  op,      \* the operation called on the document
  new,     \* the item given to set
  wout,    \* the buffer out of set and del
  wres,    \* the range lookup returned, the slice get returned
  configs, \* the Config objects allocated, by address
  buffers, \* the bytes.Buffer objects allocated, by address
  encoders,\* the json.Encoder objects allocated, by address
  pools    \* the count of mempools created

codecVars == <<task, item, out, n, buf, blen, res>>

ptrVars == <<path, fromSt, bin, toSt>>

walkVars == <<kind, elems, segs, doc, pointer, op, new, wout, wres>>

cfgVars == <<configs, buffers, encoders, pools>>

vars == <<pc, codecVars, ptrVars, walkVars, cfgVars>>

NoResult == [err |-> "none", val |-> Nil, n |-> 0]

NoFrom == [err |-> "", i |-> 0, part |-> <<>>, out |-> <<>>]

NoTo == [err |-> "", i |-> 0, out |-> <<>>, brk |-> FALSE]

NoWalk == [err |-> "none", start |-> 0, end |-> 0, out |-> <<>>]

CodecIdle ==
  /\ task = "none"
  /\ item = Nil
  /\ out = <<>>
  /\ n = 0
  /\ buf = <<>>
  /\ blen = 0
  /\ res = NoResult

PtrIdle ==
  /\ path = <<>>
  /\ fromSt = NoFrom
  /\ bin = <<>>
  /\ toSt = NoTo

WalkIdle ==
  /\ kind = "none"
  /\ elems = <<>>
  /\ segs = <<>>
  /\ doc = <<>>
  /\ pointer = <<>>
  /\ op = "none"
  /\ new = <<>>
  /\ wout = <<>>
  /\ wres = NoWalk

CfgIdle ==
  /\ configs = <<>>
  /\ buffers = <<>>
  /\ encoders = <<>>
  /\ pools = 0

\* ------------------------------------------------------ codec machine

DecodeTasks ==
  [wellformed |-> WellFormedItems, indefstring |-> IndefStringItems,
   break |-> BreakItems, header |-> HeaderItems, negative |-> NegativeItems]

Init ==
  /\ pc = "ready"
  /\ out = <<>>
  /\ n = 0
  /\ res = NoResult
  /\ \/ /\ task = "roundtrip"
        /\ item \in Values
        /\ buf = <<>>
        /\ blen = 0
     \/ /\ task \in DOMAIN DecodeTasks
        /\ item = Nil
        /\ \E b \in DecodeTasks[task], t \in Trails :
             /\ buf = b \o t
             /\ blen = Len(b)
     \/ /\ task = "nested"
        /\ item \in NestedValues
        /\ \E t \in Trails :
             /\ buf = IndefItem(item) \o t
             /\ blen = Len(IndefItem(item))
  /\ PtrIdle
  /\ WalkIdle
  /\ CfgIdle

\* n := encode(item, out)
Encode ==
  /\ pc = "ready"
  /\ task = "roundtrip"
  /\ out' = encode(item)
  /\ n' = Len(encode(item))
  /\ pc' = "encoded"
  /\ UNCHANGED <<task, item, buf, blen, res, ptrVars, walkVars, cfgVars>>

\* value, m := decode(out[:n])
DecodeEncoded ==
  /\ pc = "encoded"
  /\ buf' = SubSeq(out, 1, n)
  /\ blen' = n
  /\ res' = decode(SubSeq(out, 1, n))
  /\ pc' = "done"
  /\ UNCHANGED <<task, item, out, n, ptrVars, walkVars, cfgVars>>

\* value, m := decode(buf)
Decode ==
  /\ pc = "ready"
  /\ task \in DOMAIN DecodeTasks \cup {"nested"}
  /\ res' = decode(buf)
  /\ pc' = "done"
  /\ UNCHANGED <<task, item, out, n, buf, blen, ptrVars, walkVars, cfgVars>>

Next == Encode \/ DecodeEncoded \/ Decode

Spec == Init /\ [][Next]_vars

\* ---------------------------------------------------- pointer machine

PtrInit ==
  /\ \/ /\ pc = "ready"
        /\ path \in Paths
        /\ bin = <<>>
     \/ /\ pc = "frame"
        /\ path = <<>>
        /\ bin \in Frames
  /\ fromSt = NoFrom
  /\ toSt = NoTo
  /\ CodecIdle
  /\ WalkIdle
  /\ CfgIdle

\* FromJsonPointer(path, out) up to its loop
PtrFromEnter ==
  /\ pc = "ready"
  /\ fromSt' = FromEnter(path)
  /\ pc' = IF FromEnter(path).err # "" THEN "panic" ELSE "from"
  /\ UNCHANGED <<path, bin, toSt, codecVars, walkVars, cfgVars>>

\* one iteration of FromJsonPointer's loop
PtrFromIter ==
  /\ pc = "from"
  /\ fromSt.i < Len(path)
  /\ fromSt' = FromIter(path, fromSt)
  /\ pc' = IF FromIter(path, fromSt).err # "" THEN "panic" ELSE "from"
  /\ UNCHANGED <<path, bin, toSt, codecVars, walkVars, cfgVars>>

\* FromJsonPointer after its loop, to its return
PtrFromExit ==
  /\ pc = "from"
  /\ ~(fromSt.i < Len(path))
  /\ fromSt' = [fromSt EXCEPT !.out = FromExit(path, fromSt)]
  /\ pc' = "converted"
  /\ UNCHANGED <<path, bin, toSt, codecVars, walkVars, cfgVars>>

\* ToJsonPointer(out[:n], text) up to its loop
PtrToEnter ==
  /\ pc = "converted"
  /\ bin' = fromSt.out
  /\ toSt' = ToEnter(fromSt.out)
  /\ pc' = IF ToEnter(fromSt.out).err # "" THEN "panic" ELSE "to"
  /\ UNCHANGED <<path, fromSt, codecVars, walkVars, cfgVars>>

\* ToJsonPointer(bin, text) up to its loop, for a frame given by the caller
PtrToEnterFrame ==
  /\ pc = "frame"
  /\ toSt' = ToEnter(bin)
  /\ pc' = IF ToEnter(bin).err # "" THEN "panic" ELSE "to"
  /\ UNCHANGED <<path, fromSt, bin, codecVars, walkVars, cfgVars>>

\* one iteration of ToJsonPointer's loop, to its return at a break-stop
PtrToIter ==
  /\ pc = "to"
  /\ toSt' = ToIter(bin, toSt)
  /\ pc' = IF ToIter(bin, toSt).err # "" THEN "panic"
           ELSE IF ToIter(bin, toSt).brk THEN "done"
           ELSE "to"
  /\ UNCHANGED <<path, fromSt, bin, codecVars, walkVars, cfgVars>>

PtrNext ==
  \/ PtrFromEnter
  \/ PtrFromIter
  \/ PtrFromExit
  \/ PtrToEnter
  \/ PtrToEnterFrame
  \/ PtrToIter

SpecPtr == PtrInit /\ [][PtrNext]_vars

\* ----------------------------------------------------- walker machine

WalkInit ==
  /\ pc = "ready"
  /\ \/ /\ kind = "array"
        /\ elems \in SeqsUpTo(WalkElems, MaxItems)
        /\ doc = IndefArrayItem(elems)
     \/ /\ kind = "map"
        /\ elems \in SeqsUpTo(WalkPairs, MaxItems - 1)
        /\ doc = IndefMapItem(Flatten(elems))
  /\ segs \in SeqsUpTo(WalkSegs, MaxSegs)
  /\ pointer = FromJsonPointer(PathOf(segs))
  /\ op = "none"
  /\ new = <<>>
  /\ wout = <<>>
  /\ wres = NoWalk
  /\ CodecIdle
  /\ PtrIdle
  /\ CfgIdle

\* start, end := lookup(pointer, doc)
Lookup ==
  /\ pc = "ready"
  /\ op' = "lookup"
  /\ \E r \in {lookup(pointer, doc)} :
       wres' = [err |-> r.err, start |-> r.start, end |-> r.end, out |-> <<>>]
  /\ pc' = "done"
  /\ UNCHANGED <<kind, elems, segs, doc, pointer, new, wout, codecVars,
                 ptrVars, cfgVars>>

\* slice := get(doc, pointer)
Get ==
  /\ pc = "ready"
  /\ op' = "get"
  /\ \E r \in {get(doc, pointer)} :
       wres' = [err |-> r.err, start |-> 0, end |-> 0, out |-> r.out]
  /\ pc' = "done"
  /\ UNCHANGED <<kind, elems, segs, doc, pointer, new, wout, codecVars,
                 ptrVars, cfgVars>>

\* set(doc, pointer, new, out), out a zeroed buffer that holds the result
Set ==
  /\ pc = "ready"
  /\ op' = "set"
  /\ \E x \in NewItems :
       /\ new' = x
       /\ \E r \in {set(doc, pointer, x, Zeros(Len(doc) + Len(x)))} :
            /\ wout' = r.out
            /\ wres' = [NoWalk EXCEPT !.err = r.err]
  /\ pc' = "done"
  /\ UNCHANGED <<kind, elems, segs, doc, pointer, codecVars, ptrVars, cfgVars>>

\* del(doc, pointer, out), out a zeroed buffer that holds the result
Del ==
  /\ pc = "ready"
  /\ op' = "del"
  /\ \E r \in {del(doc, pointer, Zeros(Len(doc)))} :
       /\ wout' = r.out
       /\ wres' = [NoWalk EXCEPT !.err = r.err]
  /\ pc' = "done"
  /\ UNCHANGED <<kind, elems, segs, doc, pointer, new, codecVars, ptrVars, cfgVars>>

\* k := itemsEnd(doc)
ItemsEnd ==
  /\ pc = "ready"
  /\ op' = "itemsEnd"
  /\ \E r \in {itemsEnd(doc)} :
       wres' = [err |-> r.err, start |-> 0, end |-> r.n, out |-> <<>>]
  /\ pc' = "done"
  /\ UNCHANGED <<kind, elems, segs, doc, pointer, new, wout, codecVars,
                 ptrVars, cfgVars>>

WalkNext == Lookup \/ Get \/ Set \/ Del \/ ItemsEnd

SpecWalk == WalkInit /\ [][WalkNext]_vars

\* ------------------------------------------------------ config machine

SmartNumber32 == 1

SmartNumber == 2

IntNumber == 3

FloatNumber32 == 4

FloatNumber == 5

JSONNumber == 6

Decimal == 7

LengthPrefix == 1

Stream == 2

MaxKeys == 1000

MaxConfigs == 3

NumberKinds ==
  {SmartNumber32, SmartNumber, IntNumber, FloatNumber32, FloatNumber,
   JSONNumber, Decimal}

ContainerEncodings == {LengthPrefix, Stream}

KeyLimits == {1, MaxKeys}

\* the lengths given to SetJptrlen; NewDefaultConfig gives MaxJsonpointerLen,
\* a constant declared outside these sources, which is one of them
JptrLens == {12, 1024}

\* &Config{...}: the fields not named are zero, the references nil (0)
DefaultConfig ==
  [nk |-> FloatNumber, ct |-> Stream, maxKeys |-> MaxKeys, pools |-> 0,
   ws |-> "UnicodeSpace", strict |-> TRUE, buf |-> 0, enc |-> 0,
   doMissing |-> TRUE, arrayLenPrefix |-> FALSE, propertyLenPrefix |-> TRUE,
   jptrMaxlen |-> 0, jptrMaxseg |-> 0]

\* The setters have value receivers: config is a copy of the receiver, field
\* by field, and the result is the address of that copy.  A reference field
\* (buf, enc) of the copy holds the address the receiver's field holds.
SetNumberKind(config, nk) == [config EXCEPT !.nk = nk]

SetContainerEncoding(config, ct) == [config EXCEPT !.ct = ct]

SetMaxkeys(config, max) == [config EXCEPT !.maxKeys = max]

SetJptrlen(config, len) ==
  [config EXCEPT !.jptrMaxlen = len, !.jptrMaxseg = len \div 8]

ResetPools(config, pool) == [config EXCEPT !.pools = pool]

\* bytes.NewBuffer(make([]byte, 0, 1024))
NewBuffer == [data |-> <<>>, cap |-> 1024]

\* json.NewEncoder(w)
NewEncoder(w) == [w |-> w]

CfgInit ==
  /\ pc = "ready"
  /\ CodecIdle
  /\ PtrIdle
  /\ WalkIdle
  /\ CfgIdle

\* config := NewDefaultConfig()
NewDefaultConfig ==
  /\ Len(configs) < MaxConfigs
  /\ \E len \in JptrLens :
       configs' = Append(configs,
                    [SetJptrlen(DefaultConfig, len) EXCEPT
                       !.buf = Len(buffers) + 1,
                       !.enc = Len(encoders) + 1,
                       !.pools = pools + 1])
  /\ buffers' = Append(buffers, NewBuffer)
  /\ encoders' = Append(encoders, NewEncoder(Len(buffers) + 1))
  /\ pools' = pools + 1
  /\ UNCHANGED <<pc, codecVars, ptrVars, walkVars>>

\* derived := configs[c].SetNumberKind(nk)
CfgSetNumberKind ==
  /\ Len(configs) < MaxConfigs
  /\ \E c \in DOMAIN configs, nk \in NumberKinds :
       configs' = Append(configs, SetNumberKind(configs[c], nk))
  /\ UNCHANGED <<pc, buffers, encoders, pools, codecVars, ptrVars, walkVars>>

\* derived := configs[c].SetContainerEncoding(ct)
CfgSetContainerEncoding ==
  /\ Len(configs) < MaxConfigs
  /\ \E c \in DOMAIN configs, ct \in ContainerEncodings :
       configs' = Append(configs, SetContainerEncoding(configs[c], ct))
  /\ UNCHANGED <<pc, buffers, encoders, pools, codecVars, ptrVars, walkVars>>

\* derived := configs[c].SetMaxkeys(max)
CfgSetMaxkeys ==
  /\ Len(configs) < MaxConfigs
  /\ \E c \in DOMAIN configs, max \in KeyLimits :
       configs' = Append(configs, SetMaxkeys(configs[c], max))
  /\ UNCHANGED <<pc, buffers, encoders, pools, codecVars, ptrVars, walkVars>>

\* derived := configs[c].SetJptrlen(len)
CfgSetJptrlen ==
  /\ Len(configs) < MaxConfigs
  /\ \E c \in DOMAIN configs, len \in JptrLens :
       configs' = Append(configs, SetJptrlen(configs[c], len))
  /\ UNCHANGED <<pc, buffers, encoders, pools, codecVars, ptrVars, walkVars>>

\* derived := configs[c].ResetPools(strlen, numkeys, itemlen, ptrlen)
CfgResetPools ==
  /\ Len(configs) < MaxConfigs
  /\ \E c \in DOMAIN configs :
       configs' = Append(configs, ResetPools(configs[c], pools + 1))
  /\ pools' = pools + 1
  /\ UNCHANGED <<pc, buffers, encoders, codecVars, ptrVars, walkVars>>

CfgNext ==
  \/ NewDefaultConfig
  \/ CfgSetNumberKind
  \/ CfgSetContainerEncoding
  \/ CfgSetMaxkeys
  \/ CfgSetJptrlen
  \/ CfgResetPools

SpecConfig == CfgInit /\ [][CfgNext]_vars

\* ------------------------------------------------------ codec claims

\* the value decode is to return for v: integers as uint64 or int64 of the
\* same number, everything else as it was
RECURSIVE SemEq(_, _)

SemEq(v, d) ==
  CASE v.k = "uint" -> d = UintV(64, ZExt(v.b, 8))
    [] v.k = "int" ->
         IF IsNeg(v.b) THEN d = IntV(64, SExt(v.b, 8))
         ELSE d \in {IntV(64, SExt(v.b, 8)), UintV(64, SExt(v.b, 8))}
    [] v.k = "array" ->
         /\ d.k = "array"
         /\ Len(d.items) = Len(v.items)
         /\ \A i \in 1..Len(v.items) : SemEq(v.items[i], d.items[i])
    [] v.k = "map" ->
         /\ d.k = "map"
         /\ Len(d.pairs) = Len(v.pairs)
         /\ \A i \in 1..Len(v.pairs) :
              /\ SemEq(v.pairs[i][1], d.pairs[i][1])
              /\ SemEq(v.pairs[i][2], d.pairs[i][2])
    [] OTHER -> d = v

\* C1: decoding what encode wrote for a value built from null, booleans,
\* integers of every width, strings, byte strings, arrays and pair lists
\* succeeds with a value semantically equal to it (a non-negative signed
\* integer may come back unsigned), and with the byte count encode returned.
C1_RoundTrip ==
  (pc = "done" /\ task = "roundtrip") =>
    /\ res.err = ""
    /\ SemEq(item, res.val)
    /\ res.n = n

C1_Witness ==
  /\ pc = "done"
  /\ task = "roundtrip"
  /\ item.k = "array"
  /\ Len(item.items) = 2
  /\ item.items[1] = IntV(8, IntLit(1, -24))
  /\ item.items[2].k = "string"
  /\ res.n = 5

\* the item of major type typ for the 8-byte magnitude m, in the least width:
\* 1 byte below 24, 2 below 2^8, 3 below 2^16, 5 below 2^32, 9 otherwise,
\* the payload most significant byte first
MinimalItem(typ, m) ==
  IF ULt(m, IntLit(8, 24)) THEN <<typ + m[1]>>
  ELSE IF ULt(m, IntLit(8, 256)) THEN <<typ + 24, m[1]>>
  ELSE IF ULt(m, IntLit(8, 65536)) THEN <<typ + 25, m[2], m[1]>>
  ELSE IF ULt(m, W4294967296) THEN <<typ + 26, m[4], m[3], m[2], m[1]>>
  ELSE <<typ + 27, m[8], m[7], m[6], m[5], m[4], m[3], m[2], m[1]>>

\* item is an integer in [0, 2^63)
IsNonNegative(v) ==
  \/ v.k = "int" /\ ~IsNeg(v.b)
  \/ v.k = "uint" /\ ~IsNeg(ZExt(v.b, 8))

IsNegative(v) == v.k = "int" /\ IsNeg(v.b)

Magnitude(v) == IF v.k = "int" THEN SExt(v.b, 8) ELSE ZExt(v.b, 8)

\* C2: every integer in [0, 2^63), given to whichever signed or unsigned
\* encoder, is written as a major-type-0 item of the minimum width with a
\* big-endian payload.
C2_MinimalUnsigned ==
  (pc = "encoded" /\ IsNonNegative(item)) =>
    /\ out = MinimalItem(type0, Magnitude(item))
    /\ n = Len(out)

C2_Witness ==
  /\ pc = "encoded"
  /\ item = IntV(64, Inc(IntLit(8, 2147483647)))
  /\ out = <<26, 128, 0, 0, 0>>

\* C3: every negative integer given to a signed encoder is written as a
\* major-type-1 item whose payload -(n+1) takes the least width that fits
\* it; encode(-24) is the single byte 37 (hex).
C3_MinimalNegative ==
  (pc = "encoded" /\ IsNegative(item)) =>
    out = MinimalItem(type1, Not(Magnitude(item)))

\* C8: every header byte has a handler, and a reserved or unsupported header
\* fails with its own error: info 28..30 with DecodeInfoReserved on major
\* types 0..6 and with DecodeSimpleType on major type 7, info 31 on major
\* types 0, 1 and 6 with DecodeIndefinite, float16 with DecodeFloat16.
C8_ReservedHeaders ==
  (pc = "done" /\ task = "header") =>
    /\ buf[1] \in DOMAIN cborDecoders
    /\ (info(buf[1]) \in 28..30 /\ major(buf[1]) # type7) =>
         res.err = "DecodeInfoReserved"
    /\ (info(buf[1]) \in 28..30 /\ major(buf[1]) = type7) =>
         res.err = "DecodeSimpleType"
    /\ (info(buf[1]) = 31 /\ major(buf[1]) \in {type0, type1, type6}) =>
         res.err = "DecodeIndefinite"
    /\ (buf[1] = type7 + 25) => res.err = "DecodeFloat16"

C8_Witness ==
  /\ pc = "done"
  /\ task = "header"
  /\ buf[1] = type6 + 31
  /\ Len(buf) > 1
  /\ res.err = "DecodeIndefinite"

RECURSIVE HoldsBreakStop(_)

HoldsBreakStop(v) ==
  \/ v.k = "BreakStop"
  \/ \E i \in 1..Len(v.items) : HoldsBreakStop(v.items[i])
  \/ \E i \in 1..Len(v.pairs) :
       HoldsBreakStop(v.pairs[i][1]) \/ HoldsBreakStop(v.pairs[i][2])

\* C9 as stated: a break-stop given to decode as the top-level item, or as
\* an item, key or value of a definite-length array or map, makes decode
\* fail.
C9_BreakFails == (pc = "done" /\ task = "break") => res.err # ""

\* C9 as amended: such a break-stop does not make decode fail.  Decode
\* returns the BreakStop value with count 1 for a top-level break-stop, and
\* stores a BreakStop as the item, key or value of the definite-length
\* array or map, whose count covers it.
C9_BreakIsValue ==
  (pc = "done" /\ task = "break") =>
    /\ res.err = ""
    /\ res.n = blen
    /\ HoldsBreakStop(res.val)
    /\ (buf[1] = brkstp) => (res.val = BreakStop(brkstp) /\ res.n = 1)

C9_Witness ==
  /\ pc = "done"
  /\ task = "break"
  /\ buf = <<type5 + 1, 1, brkstp, brkstp>>
  /\ res.val = Map(<<<<UintV(64, IntLit(8, 1)), BreakStop(brkstp)>>>>)

\* C10 as stated: for a well-formed item followed by any bytes, decode
\* returns the length of the item, indefinite-length byte and text strings
\* (header, chunks, break-stop) included.
C10_CountIsLength ==
  (pc = "done" /\ task \in {"wellformed", "indefstring"}) =>
    (res.err = "" /\ res.n = blen)

\* C10 as amended: for a well-formed item that has no tag, no float16, no
\* negative integer below -2^63 and no indefinite-length string in it,
\* followed by any bytes, decode returns the length of the item; for an
\* indefinite-length byte or text string it returns the Indefinite marker
\* and the count 1, which covers the header alone.
C10_CountOrMarker ==
  /\ (pc = "done" /\ task = "wellformed") => (res.err = "" /\ res.n = blen)
  /\ (pc = "done" /\ task = "indefstring") =>
       (res.err = "" /\ res.val = Indefinite(buf[1]) /\ res.n = 1)

C10_Witness ==
  /\ pc = "done"
  /\ task = "wellformed"
  /\ buf = <<type4 + 31, type5 + 31, 97, 98, 159, 255, 255, 255, 255>>
  /\ res.n = 8

C10_WitnessMarker ==
  /\ pc = "done"
  /\ task = "indefstring"
  /\ blen > 2
  /\ res.n = 1

\* ---------------------------------------------------- pointer claims

\* C4: for every valid JSON-Pointer text (empty, or starting with '/', with
\* '~' only in ~0 and ~1), empty middle segments and a trailing '/'
\* included, FromJsonPointer followed by ToJsonPointer completes and
\* reproduces the text byte for byte.
C4_PointerRoundTrip ==
  (ValidPointer(path) /\ fromSt.out # <<>> /\ pc \in {"done", "panic"}) =>
    (pc = "done" /\ toSt.out = path)

\* C11: FromJsonPointer and ToJsonPointer reach a return or an error in
\* finitely many steps on every text that begins with '/' and every frame
\* that begins with the indefinite-text header: an iteration of either loop
\* fails, returns, or leaves the loop at a later input position, so the
\* conversion never stays at the same position.
C11_LoopsAdvance ==
  /\ (pc = "from" /\ fromSt.i < Len(path)) =>
       \/ FromIter(path, fromSt).err # ""
       \/ FromIter(path, fromSt).i > fromSt.i
  /\ (pc = "to") =>
       \/ ToIter(bin, toSt).err # ""
       \/ ToIter(bin, toSt).brk
       \/ ToIter(bin, toSt).i > toSt.i

\* ----------------------------------------------------- walker claims

\* the decimal index of a one-digit segment
IndexOf(seg) == seg[1] - Digit0

IsIndexSeg(seg) == Len(seg) = 1 /\ seg[1] \in 48..57

\* C5: for an indefinite-length array of k items and a pointer of one
\* segment, the decimal index i with 0 <= i < k, get returns the encoded
\* bytes of the item at position i, so 02 for 9F 01 02 03 FF and /1.
C5_GetByIndex ==
  (/\ pc = "done"
   /\ op = "get"
   /\ kind = "array"
   /\ Len(segs) = 1
   /\ IsIndexSeg(segs[1])
   /\ IndexOf(segs[1]) < Len(elems)) =>
    (wres.err = "" /\ wres.out = elems[IndexOf(segs[1]) + 1])

\* the text of a pair's key, a definite-length text string below 24 bytes
KeyText(pair) == Tail(pair[1])

HasKey(pairs, text) == \E j \in 1..Len(pairs) : KeyText(pairs[j]) = text

FirstKey(pairs, text) ==
  CHOOSE j \in 1..Len(pairs) :
    /\ KeyText(pairs[j]) = text
    /\ \A i \in 1..(j - 1) : KeyText(pairs[i]) # text

\* where the value of the j-th pair starts in the document
ValueStart(pairs, j) ==
  1 + Len(Flatten(SubSeq(pairs, 1, j - 1))) + Len(pairs[j][1])

\* C6: for an indefinite-length map and a pointer of one segment, lookup
\* returns the byte range of the value of the first pair whose key has the
\* segment's text, and fails with NoKey when no key has that text.
C6_MapLookup ==
  (pc = "done" /\ op = "lookup" /\ kind = "map" /\ Len(segs) = 1) =>
    IF HasKey(elems, segs[1])
    THEN /\ wres.err = ""
         /\ wres.start = ValueStart(elems, FirstKey(elems, segs[1]))
         /\ wres.end = wres.start + Len(elems[FirstKey(elems, segs[1])][2])
    ELSE wres.err = "NoKey"

IsPrefix(p, s) == Len(p) <= Len(s) /\ SubSeq(s, 1, Len(p)) = p

\* doc[0..start] ++ item ++ doc[end..]
Splice(d, r, x) == SubSeq(d, 1, r.start) \o x \o From(d, r.end)

\* C7: with (start, end) the range lookup returns for the pointer, after set
\* the buffer out begins with doc[0..start], the item, doc[end..], and
\* after del it begins with doc[0..start], doc[end..].
C7_EditsSplice ==
  (/\ pc = "done"
   /\ op \in {"set", "del"}
   /\ lookup(pointer, doc).err = ""
   /\ lookup(pointer, doc).start <= lookup(pointer, doc).end
   /\ lookup(pointer, doc).end <= Len(doc)) =>
    (wres.err = "" /\ IsPrefix(Splice(doc, lookup(pointer, doc), new), wout))

\* where the i-th item (from 0) of the array document starts
ItemStart(items, i) == 1 + Len(Concat(SubSeq(items, 1, i)))

NestedArray == IndefArrayItem(<<<<1>>, <<2>>>>)

NestedMap == IndefMapItem(<<<<97, 97>>, <<1>>>>)

\* the segment addresses a one-byte item of the nested container sub
InnerAddressed(sub, seg) ==
  \/ sub = NestedArray /\ seg \in {<<Digit0>>, <<Digit1>>}
  \/ sub = NestedMap /\ seg = <<97>>

\* where that item starts in sub
InnerStart(sub, seg) == IF sub = NestedArray THEN 1 + IndexOf(seg) ELSE 3

\* C12: for a pointer of two segments into an array document, the first the
\* index of a nested indefinite array or map and the second an index or a
\* key of it, lookup returns the offsets in the original document of the
\* item addressed by the full path, and get returns that item's encoding.
C12_NestedAbsolute ==
  (/\ pc = "done"
   /\ op \in {"lookup", "get"}
   /\ kind = "array"
   /\ Len(segs) = 2
   /\ IsIndexSeg(segs[1])
   /\ IndexOf(segs[1]) < Len(elems)
   /\ InnerAddressed(elems[IndexOf(segs[1]) + 1], segs[2])) =>
    LET i == IndexOf(segs[1])
        at == ItemStart(elems, i) + InnerStart(elems[i + 1], segs[2])
    IN  /\ wres.err = ""
        /\ op = "lookup" => (wres.start = at /\ wres.end = at + 1)
        /\ op = "get" => wres.out = SubSeq(doc, at + 1, at + 1)

\* C13: for a well-formed indefinite-length array of k >= 0 items, the empty
\* array and arrays that hold indefinite arrays or maps included,
\* itemsEnd returns its full length: the header, the k items, the
\* break-stop.
C13_ItemsEndArray ==
  (pc = "done" /\ op = "itemsEnd" /\ kind = "array") =>
    (wres.err = "" /\ wres.end = Len(doc))

\* ------------------------------------------- negative integer claims

\* the payload of the item at the front of buf, as an 8-byte word
PayloadOf(b) == ZExt(UintBE(b, 2, PayloadWidth(info(b[1]))), 8)

Representable(p) == ~ULt(W9223372036854775807, p)

\* C14: for major type 1 with info 24, 25, 26 or 27 and every representable
\* payload p of 1, 2, 4 or 8 bytes, decode returns the signed integer
\* -p - 1, at the all-ones payloads too (38 FF decodes to -256).
C14_NegativeValue ==
  (pc = "done" /\ task = "negative" /\ Representable(PayloadOf(buf))) =>
    /\ res.err = ""
    /\ res.val = IntV(64, Not(PayloadOf(buf)))

\* C15: a major-type-1 item with an 8-byte payload p fails with
\* DecodeExceedInt64 exactly when p > 2^63 - 1, and for every other p
\* decode returns -p - 1, so 2^63 - 1 decodes to -2^63.
C15_ExceedInt64 ==
  (pc = "done" /\ task = "negative" /\ buf[1] = hdr(type1, info27)) =>
    IF Representable(PayloadOf(buf))
    THEN /\ res.err = ""
         /\ res.val = IntV(64, Not(PayloadOf(buf)))
         /\ res.n = 9
    ELSE res.err = "DecodeExceedInt64"

C15_Witness ==
  /\ pc = "done"
  /\ task = "negative"
  /\ buf = <<59, 127, 255, 255, 255, 255, 255, 255, 255, brkstp>>
  /\ res.val = IntV(64, Pow63)

\* ------------------------------------------------ nesting claims

\* C16: decode of an indefinite-length array or map stops at the break-stop
\* of that container's own level: the break-stop of a nested indefinite
\* array or map is consumed by the nested decode and does not end the outer
\* one, map entries are taken as (key, value) pairs, and the count includes
\* the outer closing break-stop.  So the value decoded is the value whose
\* item was given, and the count is the length of that item.
C16_OwnLevelBreak ==
  (pc = "done" /\ task = "nested") =>
    /\ res.err = ""
    /\ SemEq(item, res.val)
    /\ res.n = blen
    /\ buf[res.n] = brkstp

C16_Witness ==
  /\ pc = "done"
  /\ task = "nested"
  /\ buf = <<159, 191, 255, 159, 159, 255, 246, 255, 255, 255>>
  /\ Len(res.val.items) = 2
  /\ res.n = 9

\* ------------------------------------------------ configuration claims

\* the mutable objects a caller using the Config at address c can touch
\* through it: its scratch buffer, its encoder, and the buffer the encoder
\* writes to
Reachable(c) ==
  {<<"Buffer", configs[c].buf>>, <<"Encoder", configs[c].enc>>,
   <<"Buffer", encoders[configs[c].enc].w>>}

\* C17: two distinct Config objects share no mutable state, also when one
\* was derived from the other by SetNumberKind, SetContainerEncoding,
\* SetMaxkeys or SetJptrlen: the scratch buffer and the encoder created in
\* NewDefaultConfig are not reachable from both, so two goroutines each using
\* one of the two never touch a common mutable object.
C17_NoSharedState ==
  \A c, d \in DOMAIN configs :
    c # d => Reachable(c) \cap Reachable(d) = {}

====
